---- MODULE Spec2Model ----
(***************************************************************************)
(* A model of generate_level_sheets.py: the control identifier             *)
(* normalizer, the family classifier, the catalog / CCI lookup builders,   *)
(* the Rev 4 / Rev 5 reconciliation loop of main and the statistics loop   *)
(* of create_level_sheet.                                                  *)
(*                                                                         *)
(* A Python str is modelled as a sequence of one-character strings, so     *)
(* that strip, upper, the regular expressions, int() and the :02d format   *)
(* are computed character by character as the interpreter computes them.   *)
(***************************************************************************)
EXTENDS Integers, FiniteSets, Sequences, TLC

VARIABLES
    raw,      \* the str handed to the string function under test
    orig,     \* the str the run started from (raw before any rewriting)
    edits,    \* the kinds of rewriting applied to orig to obtain raw
    op,       \* the string function applied last ("none" before any)
    res,      \* what that function returned
    pc,               \* where main (or the loader under test) stands
    level_input,      \* the level file: level name -> its identifiers as written
    level_data,       \* level name -> identifiers, as the level loader returns them
    controlsData,     \* the records of the controls JSON file
    cciData,          \* the records of the CCI JSON file
    comparison,       \* r4_r5_comparison.json, or NoFile
    di,               \* the next record of the file being loaded
    controls_lookup,  \* identifier -> catalog entry
    cci_lookup,       \* identifier -> list of CCI entries
    withdrawn_controls,
    rev5_level_data,  \* level name -> current-revision identifiers
    rev4_only_controls, \* level name -> withdrawn identifiers (non-empty lists only)
    li,               \* the level a loop of main is at (index in LevelOrder)
    ci,               \* the next identifier of the list a loop is at
    controls,         \* the list the loop at hand iterates
    rev5_controls,    \* main's accumulators for the level at hand
    rev4_controls,
    stats,            \* create_level_sheet's accumulator
    all_stats,        \* level name -> statistics
    args,             \* the --controls and --cci command-line paths ("" when not given)
    files,            \* the paths that exist
    controls_path,    \* what find_data_file returned for the controls file
    cci_path,         \* what find_data_file returned for the CCI file
    error,            \* the message of the FileNotFoundError raised ("" while none)
    summary           \* the rows of the overview table of the summary sheet

strVars == <<raw, orig, edits, op, res>>

inputVars == <<level_input, controlsData, cciData, comparison>>

lookupVars == <<controls_lookup, cci_lookup>>

fileVars == <<args, files, controls_path, cci_path, error>>

reconVars == <<rev5_level_data, rev4_only_controls, rev5_controls, rev4_controls>>

vars == <<raw, orig, edits, op, res, pc, level_input, level_data, controlsData,
          cciData, comparison, di, controls_lookup, cci_lookup,
          withdrawn_controls, rev5_level_data, rev4_only_controls, li, ci,
          controls, rev5_controls, rev4_controls, stats, all_stats,
          args, files, controls_path, cci_path, error, summary>>

-----------------------------------------------------------------------------
(* Characters                                                              *)

UpperSeq == <<"A","B","C","D","E","F","G","H","I","J","K","L","M",
              "N","O","P","Q","R","S","T","U","V","W","X","Y","Z">>

LowerSeq == <<"a","b","c","d","e","f","g","h","i","j","k","l","m",
              "n","o","p","q","r","s","t","u","v","w","x","y","z">>

DigitSeq == <<"0","1","2","3","4","5","6","7","8","9">>

IsUpperChar(c) == \E i \in 1..Len(UpperSeq) : UpperSeq[i] = c

IsLowerChar(c) == \E i \in 1..Len(LowerSeq) : LowerSeq[i] = c

IsDigitChar(c) == \E i \in 1..Len(DigitSeq) : DigitSeq[i] = c

\* str.strip() with no argument removes these (of the characters modelled).
IsSpaceChar(c) == c = " "

UpperChar(c) ==
    IF IsLowerChar(c)
    THEN UpperSeq[CHOOSE i \in 1..Len(LowerSeq) : LowerSeq[i] = c]
    ELSE c

LowerChar(c) ==
    IF IsUpperChar(c)
    THEN LowerSeq[CHOOSE i \in 1..Len(UpperSeq) : UpperSeq[i] = c]
    ELSE c

DigitVal(c) == (CHOOSE i \in 1..Len(DigitSeq) : DigitSeq[i] = c) - 1

-----------------------------------------------------------------------------
(* str methods, int() and the format specification                         *)

\* str.upper()
StrUpper(s) == [i \in 1..Len(s) |-> UpperChar(s[i])]

RECURSIVE LStrip(_)
LStrip(s) ==
    IF s # <<>> /\ IsSpaceChar(s[1]) THEN LStrip(Tail(s)) ELSE s

RECURSIVE RStrip(_)
RStrip(s) ==
    IF s # <<>> /\ IsSpaceChar(s[Len(s)])
    THEN RStrip(SubSeq(s, 1, Len(s) - 1))
    ELSE s

\* str.strip()
StrStrip(s) == RStrip(LStrip(s))

\* the `ws.strip().upper()` both functions match against
StripUpper(s) == StrUpper(StrStrip(s))

IsDigits(s) == Len(s) >= 1 /\ \A i \in 1..Len(s) : IsDigitChar(s[i])

\* int(s) of a string of decimal digits
RECURSIVE IntOf(_)
IntOf(s) ==
    IF s = <<>> THEN 0
    ELSE 10 * IntOf(SubSeq(s, 1, Len(s) - 1)) + DigitVal(s[Len(s)])

\* str(n), n >= 0
RECURSIVE Dec(_)
Dec(n) ==
    IF n < 10 THEN <<DigitSeq[n + 1]>>
    ELSE Dec(n \div 10) \o <<DigitSeq[(n % 10) + 1]>>

\* As Fmt02d, with the width of the format left out ({n:d}).
Fmt02d_NoPad(n) == Dec(n)

\* f"{n:02d}": zero-filled to a width of at least 2, never truncated
Fmt02d(n) == IF Len(Dec(n)) < 2 THEN <<"0">> \o Dec(n) ELSE Dec(n)

-----------------------------------------------------------------------------
(* The regular expressions                                                 *)

\* the length of the longest prefix of s made of decimal digits
RECURSIVE DigitRun(_)
DigitRun(s) ==
    IF s # <<>> /\ IsDigitChar(s[1]) THEN 1 + DigitRun(Tail(s)) ELSE 0

\* s matches  \d+(?:\((\d+)\))?$   (the part after the hyphen)
NumberTail(s) ==
    LET d    == DigitRun(s)
        rest == SubSeq(s, d + 1, Len(s))
    IN  /\ d >= 1
        /\ \/ rest = <<>>
           \/ /\ Len(rest) >= 3
              /\ rest[1] = "("
              /\ rest[Len(rest)] = ")"
              /\ IsDigits(SubSeq(rest, 2, Len(rest) - 1))

\* s starts with k uppercase letters and a hyphen
FamilyPrefix(s, k) ==
    /\ Len(s) >= k + 1
    /\ \A i \in 1..k : IsUpperChar(s[i])
    /\ s[k + 1] = "-"

\* re.match(r'^([A-Z]{2})-(\d+)(?:\((\d+)\))?$', s)
NormalizePattern(s) ==
    FamilyPrefix(s, 2) /\ NumberTail(SubSeq(s, 4, Len(s)))

\* the groups of that match: family, control number and enhancement
\* (enhancement <<>> when the optional group did not take part: None)
Groups(s) ==
    LET body == SubSeq(s, 4, Len(s))
        d    == DigitRun(body)
        rest == SubSeq(body, d + 1, Len(body))
    IN  [family      |-> SubSeq(s, 1, 2),
         control_num |-> SubSeq(body, 1, d),
         enhancement |-> IF rest = <<>> THEN <<>>
                         ELSE SubSeq(rest, 2, Len(rest) - 1)]

\* As ValidatePattern, matched with the family of the normalizer's pattern.
ValidatePattern_TwoOnly(s) == NormalizePattern(s)

\* re.match(r'^[A-Z]{2,3}-\d+(\(\d+\))?$', s)
ValidatePattern(s) ==
    \E k \in 2..3 : FamilyPrefix(s, k) /\ NumberTail(SubSeq(s, k + 2, Len(s)))

\* As FamilyPattern, with the two-letter family of the normalizer's pattern.
FamilyPattern_TwoOnly(s) == FamilyPrefix(s, 2)

\* re.match(r'^([A-Z]{2,3})-', s)
FamilyPattern(s) == \E k \in 2..3 : FamilyPrefix(s, k)

\* As FamilyGroup, taking two letters whatever the match took.
FamilyGroup_TwoLetters(s) == SubSeq(s, 1, 2)

\* match.group(1) of that match
FamilyGroup(s) == SubSeq(s, 1, CHOOSE k \in 2..3 : FamilyPrefix(s, k))

-----------------------------------------------------------------------------
(* The string functions of the program                                     *)

Unknown == <<"U","n","k","n","o","w","n">>

\* As MatchInput, upper-cased but not stripped.
MatchInput_NoStrip(control_id) == StrUpper(control_id)

\* the string the pattern is matched against: control_id.strip().upper()
MatchInput(control_id) == StripUpper(control_id)

\* As PassThrough, stripped but not upper-cased.
PassThrough_NoUpper(control_id) == StrStrip(control_id)

\* As PassThrough, upper-cased but not stripped.
PassThrough_NoStrip(control_id) == StrUpper(control_id)

\* what a non-match returns: control_id.strip().upper()
PassThrough(control_id) == StripUpper(control_id)

normalize_control_id(control_id) ==
    IF control_id = <<>> THEN <<>>
    ELSE LET s == MatchInput(control_id)
         IN  IF NormalizePattern(s)
             THEN LET g == Groups(s)
                  IN  IF g.enhancement # <<>>
                      THEN g.family \o <<"-">> \o Fmt02d(IntOf(g.control_num))
                           \o <<"(">> \o Fmt02d(IntOf(g.enhancement)) \o <<")">>
                      ELSE g.family \o <<"-">> \o Fmt02d(IntOf(g.control_num))
             ELSE PassThrough(control_id)

get_control_family(control_id) ==
    IF control_id = <<>> \/ StrStrip(control_id) = <<>> THEN Unknown
    ELSE LET s == StripUpper(control_id)
         IN  IF FamilyPattern(s) THEN FamilyGroup(s) ELSE Unknown

validate_control_id(control_id) ==
    IF control_id = <<>> \/ StrStrip(control_id) = <<>> THEN FALSE
    ELSE ValidatePattern(StripUpper(control_id))

-----------------------------------------------------------------------------
(* dict, as the program uses it                                            *)

EmptyDict == [k \in {} |-> <<>>]

\* d.get(k, default)
DictGet(d, k, default) == IF k \in DOMAIN d THEN d[k] ELSE default

\* d[k] = v
DictSet(d, k, v) == [x \in DOMAIN d \cup {k} |-> IF x = k THEN v ELSE d[x]]

\* the truth value of a dict: `if d`
Truthy(d) == DOMAIN d # {}

-----------------------------------------------------------------------------
(* The state main runs on                                                  *)

\* r4_r5_comparison.json: absent, or present with the dict it holds
NoFile == [exists |-> FALSE, data |-> EmptyDict]

FileOf(d) == [exists |-> TRUE, data |-> d]

EmptyStats ==
    [total_controls   |-> 0,
     total_ccis       |-> 0,
     families         |-> EmptyDict,
     family_ccis      |-> EmptyDict,
     unknown_controls |-> <<>>,
     not_in_reference |-> <<>>]

\* a path not resolved yet
NoPath == [path |-> "", rev |-> ""]

\* nothing given on the command line, nothing looked up, nothing raised
FilesIdle ==
    /\ args = [controls |-> "", cci |-> ""]
    /\ files = {}
    /\ controls_path = NoPath
    /\ cci_path = NoPath
    /\ error = ""
    /\ summary = <<>>

\* the pipeline at rest, for the runs of the string functions alone
PipelineIdle ==
    /\ FilesIdle
    /\ pc = "idle"
    /\ level_input = EmptyDict
    /\ level_data = EmptyDict
    /\ controlsData = <<>>
    /\ cciData = <<>>
    /\ comparison = NoFile
    /\ di = 1
    /\ controls_lookup = EmptyDict
    /\ cci_lookup = EmptyDict
    /\ withdrawn_controls = {}
    /\ rev5_level_data = EmptyDict
    /\ rev4_only_controls = EmptyDict
    /\ li = 1
    /\ ci = 1
    /\ controls = <<>>
    /\ rev5_controls = <<>>
    /\ rev4_controls = <<>>
    /\ stats = EmptyStats
    /\ all_stats = EmptyDict

pipeVars == <<pc, level_input, level_data, controlsData, cciData, comparison,
              di, controls_lookup, cci_lookup, withdrawn_controls,
              rev5_level_data, rev4_only_controls, li, ci, controls,
              rev5_controls, rev4_controls, stats, all_stats,
              args, files, controls_path, cci_path, error, summary>>

StringsIdle ==
    /\ raw = <<>>
    /\ orig = <<>>
    /\ edits = {}
    /\ op = "none"
    /\ res = <<>>

-----------------------------------------------------------------------------
(* The lookup builders: load_controls_data and load_cci_data               *)

K_Identifier == "Control Identifier"
K_Name       == "Control (or Control Enhancement) Name"
K_Text       == "Control Text"
K_Discussion == "Discussion"
K_Related    == "Related Controls"
K_Control    == "Control"
K_CciNumber  == "CCI Number"
K_Description == "Description"
K_Index      == "Index"

\* the entry stored for a catalog record: absent fields default to ''
ControlsEntry(control) ==
    [name             |-> DictGet(control, K_Name, ""),
     text             |-> DictGet(control, K_Text, ""),
     discussion       |-> DictGet(control, K_Discussion, ""),
     related_controls |-> DictGet(control, K_Related, "")]

\* As ControlsLoopBody, keeping the entry an identifier already has.
ControlsLoopBody_KeepFirst(lookup, control) ==
    LET control_id == normalize_control_id(DictGet(control, K_Identifier, <<>>))
    IN  IF control_id # <<>> /\ control_id \notin DOMAIN lookup
        THEN DictSet(lookup, control_id, ControlsEntry(control))
        ELSE lookup

\* one turn of `for control in data` of load_controls_data
ControlsLoopBody(lookup, control) ==
    LET control_id == normalize_control_id(DictGet(control, K_Identifier, <<>>))
    IN  IF control_id # <<>>
        THEN DictSet(lookup, control_id, ControlsEntry(control))
        ELSE lookup

\* the entry appended for a CCI record
CciEntry(item) ==
    [cci_number  |-> DictGet(item, K_CciNumber, ""),
     description |-> DictGet(item, K_Description, ""),
     index       |-> DictGet(item, K_Index, "")]

\* As CciLoopBody, assigning a one-entry list instead of appending.
CciLoopBody_Overwrite(lookup, item) ==
    LET control_id == normalize_control_id(DictGet(item, K_Control, <<>>))
    IN  IF control_id # <<>>
        THEN DictSet(lookup, control_id, <<CciEntry(item)>>)
        ELSE lookup

\* one turn of `for item in data` of load_cci_data (cci_lookup is a
\* defaultdict(list): a missing key starts as [])
CciLoopBody(lookup, item) ==
    LET control_id == normalize_control_id(DictGet(item, K_Control, <<>>))
    IN  IF control_id # <<>>
        THEN DictSet(lookup, control_id,
                     Append(DictGet(lookup, control_id, <<>>), CciEntry(item)))
        ELSE lookup

restVars == <<level_input, level_data, comparison, withdrawn_controls,
              rev5_level_data, rev4_only_controls, li, ci, controls,
              rev5_controls, rev4_controls, stats, all_stats,
              args, files, controls_path, cci_path, error, summary>>

LoadControlsStep ==
    /\ pc = "load_controls"
    /\ di <= Len(controlsData)
    /\ controls_lookup' = ControlsLoopBody(controls_lookup, controlsData[di])
    /\ di' = di + 1
    /\ UNCHANGED <<pc, controlsData, cciData, cci_lookup, restVars, strVars>>

\* return controls_lookup; main goes on to load_cci_data
LoadControlsReturn ==
    /\ pc = "load_controls"
    /\ di > Len(controlsData)
    /\ pc' = "load_cci"
    /\ di' = 1
    /\ UNCHANGED <<controlsData, cciData, lookupVars, restVars, strVars>>

LoadCciStep ==
    /\ pc = "load_cci"
    /\ di <= Len(cciData)
    /\ cci_lookup' = CciLoopBody(cci_lookup, cciData[di])
    /\ di' = di + 1
    /\ UNCHANGED <<pc, controlsData, cciData, controls_lookup, restVars, strVars>>

\* return dict(cci_lookup); main goes on to load_comparison_data
LoadCciReturn ==
    /\ pc = "load_cci"
    /\ di > Len(cciData)
    /\ pc' = "load_comparison"
    /\ di' = 1
    /\ UNCHANGED <<controlsData, cciData, lookupVars, restVars, strVars>>

\* every sequence over S of length up to n
StringsUpTo(S, n) == UNION {[1..k -> S] : k \in 0..n}

-----------------------------------------------------------------------------
(* SpecLookup: the two builders run on every short file                    *)

MaxRecords == 3   \* the longest file of records

S_AC1  == <<"A","C","-","1">>
S_ac01 == <<"a","c","-","0","1">>
S_AC01 == <<"A","C","-","0","1">>
S_AC02 == <<"A","C","-","0","2">>
S_SA99 == <<"S","A","-","9","9">>
S_Blank == <<" ">>

CatRec(id, name) ==
    (K_Identifier :> id) @@ (K_Name :> name) @@ (K_Text :> "text")
    @@ (K_Discussion :> "disc") @@ (K_Related :> "rel")

CciRec(id, number) ==
    (K_Control :> id) @@ (K_CciNumber :> number)
    @@ (K_Description :> "desc") @@ (K_Index :> "idx")

CatalogRecords ==
    {CatRec(id, n) : id \in {S_AC1, S_ac01, S_SA99, S_Blank}, n \in {"n1", "n2"}}
    \cup {(K_Identifier :> S_AC01), (K_Name :> "n1")}

CciRecords ==
    {CciRec(id, n) : id \in {S_AC1, S_ac01, S_SA99, S_Blank},
                     n \in {"CCI-1", "CCI-2"}}
    \cup {(K_Control :> S_AC01), (K_CciNumber :> "CCI-1")}

InitLookup ==
    /\ \/ controlsData \in StringsUpTo(CatalogRecords, MaxRecords) /\ cciData = <<>>
       \/ controlsData = <<>> /\ cciData \in StringsUpTo(CciRecords, MaxRecords)
    /\ pc = "load_controls"
    /\ FilesIdle
    /\ di = 1
    /\ level_input = EmptyDict
    /\ level_data = EmptyDict
    /\ comparison = NoFile
    /\ controls_lookup = EmptyDict
    /\ cci_lookup = EmptyDict
    /\ withdrawn_controls = {}
    /\ rev5_level_data = EmptyDict
    /\ rev4_only_controls = EmptyDict
    /\ li = 1
    /\ ci = 1
    /\ controls = <<>>
    /\ rev5_controls = <<>>
    /\ rev4_controls = <<>>
    /\ stats = EmptyStats
    /\ all_stats = EmptyDict
    /\ StringsIdle

NextLookup ==
    LoadControlsStep \/ LoadControlsReturn \/ LoadCciStep \/ LoadCciReturn

SpecLookup == InitLookup /\ [][NextLookup]_vars

-----------------------------------------------------------------------------
(* main: the level loaders, the comparison file, the reconciliation loop   *)
(* and the level sheets                                                    *)

\* the levels in the order of the input file (dicts keep insertion order)
LevelOrder == <<"DL-1", "DL-2">>

RECURSIVE NormalizeEach(_)
NormalizeEach(cs) ==
    IF cs = <<>> THEN <<>>
    ELSE IF Head(cs) # <<>>
         THEN <<normalize_control_id(Head(cs))>> \o NormalizeEach(Tail(cs))
         ELSE NormalizeEach(Tail(cs))

NonEmpty(c) == c # <<>>

\* load_level_data_from_json: [normalize_control_id(c) for c in controls if c]
load_level_data_from_json(data) ==
    [level \in DOMAIN data |-> NormalizeEach(data[level])]

\* load_level_data_from_csv: the same list with the empty results dropped
load_level_data_from_csv(data) ==
    [col \in DOMAIN data |-> SelectSeq(NormalizeEach(data[col]), NonEmpty)]

K_Withdrawn == "withdrawn_rev4_only"
K_New       == "new_rev5_only"

SeqToSet(s) == {s[i] : i \in 1..Len(s)}

\* load_comparison_data: the two lists as sets, as written in the file
load_comparison_data(file) ==
    IF file.exists
    THEN [withdrawn |-> SeqToSet(DictGet(file.data, K_Withdrawn, <<>>)),
          new       |-> SeqToSet(DictGet(file.data, K_New, <<>>))]
    ELSE [withdrawn |-> {}, new |-> {}]

\* As ReconcileBody, with the else of the test left out.
ReconcileBody_NoElse(acc, ctrl, withdrawn) ==
    LET normalized == normalize_control_id(ctrl)
    IN  IF normalized \in withdrawn
        THEN [rev5 |-> Append(acc.rev5, normalized),
              rev4 |-> Append(acc.rev4, normalized)]
        ELSE [acc EXCEPT !.rev5 = Append(@, normalized)]

\* one turn of `for ctrl in controls` of main
ReconcileBody(acc, ctrl, withdrawn) ==
    LET normalized == normalize_control_id(ctrl)
    IN  IF normalized \in withdrawn
        THEN [acc EXCEPT !.rev4 = Append(@, normalized)]
        ELSE [acc EXCEPT !.rev5 = Append(@, normalized)]

\* As IsMissing, testing the name of the entry.
IsMissing_NoName(control_info) == DictGet(control_info, "name", "") = ""

\* `if not control_info`, control_info being the entry or {}
IsMissing(control_info) == ~Truthy(control_info)

\* As DictAdd, assigning n where DictAdd adds it.
DictAdd_Assigned(d, k, n) == DictSet(d, k, n)

\* d[k] += n on a defaultdict(int)
DictAdd(d, k, n) == DictSet(d, k, DictGet(d, k, 0) + n)

\* As Tally, total_ccis assigned where Tally adds to it.
Tally_CcisAssigned(st, normalized_id, lookup, ccilookup) ==
    LET control_info == DictGet(lookup, normalized_id, EmptyDict)
        ccis         == DictGet(ccilookup, normalized_id, <<>>)
        family       == get_control_family(normalized_id)
        cci_count    == Len(ccis)
    IN  [total_controls   |-> st.total_controls + 1,
         total_ccis       |-> cci_count,
         families         |-> DictAdd(st.families, family, 1),
         family_ccis      |-> DictAdd(st.family_ccis, family, cci_count),
         unknown_controls |-> IF family = Unknown
                              THEN Append(st.unknown_controls, normalized_id)
                              ELSE st.unknown_controls,
         not_in_reference |-> IF IsMissing(control_info)
                              THEN Append(st.not_in_reference, normalized_id)
                              ELSE st.not_in_reference]

\* what one turn does to stats for an identifier that is not skipped
Tally(st, normalized_id, lookup, ccilookup) ==
    LET control_info == DictGet(lookup, normalized_id, EmptyDict)
        ccis         == DictGet(ccilookup, normalized_id, <<>>)
        family       == get_control_family(normalized_id)
        cci_count    == Len(ccis)
    IN  [total_controls   |-> st.total_controls + 1,
         total_ccis       |-> st.total_ccis + cci_count,
         families         |-> DictAdd(st.families, family, 1),
         family_ccis      |-> DictAdd(st.family_ccis, family, cci_count),
         unknown_controls |-> IF family = Unknown
                              THEN Append(st.unknown_controls, normalized_id)
                              ELSE st.unknown_controls,
         not_in_reference |-> IF IsMissing(control_info)
                              THEN Append(st.not_in_reference, normalized_id)
                              ELSE st.not_in_reference]

\* As SheetLoopBody, also skipping an identifier with no CCI.
SheetLoopBody_SkipNoCci(st, control_id, lookup, ccilookup) ==
    LET normalized_id == normalize_control_id(control_id)
    IN  IF normalized_id = <<>> \/ normalized_id \notin DOMAIN ccilookup
        THEN st
        ELSE Tally(st, normalized_id, lookup, ccilookup)

\* one turn of `for control_id in controls` of create_level_sheet
SheetLoopBody(st, control_id, lookup, ccilookup) ==
    LET normalized_id == normalize_control_id(control_id)
    IN  IF normalized_id = <<>> THEN st
        ELSE Tally(st, normalized_id, lookup, ccilookup)

\* the stats create_level_sheet returns for the list cs: its loop run on
\* cs[1..n], n = Len(cs)
RECURSIVE StatsAfter(_, _, _, _)
StatsAfter(cs, n, lookup, ccilookup) ==
    IF n = 0 THEN EmptyStats
    ELSE SheetLoopBody(StatsAfter(cs, n - 1, lookup, ccilookup), cs[n],
                       lookup, ccilookup)

create_level_sheet(cs, lookup, ccilookup) ==
    StatsAfter(cs, Len(cs), lookup, ccilookup)

loopVars == <<li, ci, controls>>

LoadLevelsJson ==
    /\ pc = "load_levels"
    /\ level_data' = load_level_data_from_json(level_input)
    /\ pc' = "find_controls"
    /\ UNCHANGED <<fileVars, summary, inputVars, di, lookupVars, withdrawn_controls, reconVars,
                   loopVars, stats, all_stats, strVars>>

LoadLevelsCsv ==
    /\ pc = "load_levels"
    /\ level_data' = load_level_data_from_csv(level_input)
    /\ pc' = "find_controls"
    /\ UNCHANGED <<fileVars, summary, inputVars, di, lookupVars, withdrawn_controls, reconVars,
                   loopVars, stats, all_stats, strVars>>

\* The file names main looks for next to the script.
R5Controls == "r5controls.json"
R4Controls == "r4controls.json"
R5Cci == "rev5cci.json"
R4Cci == "rev4cci.json"

\* the two FileNotFoundError messages, without the path they end with
SpecifiedNotFound == "Specified file not found"
NoDataFiles == "No data files found"

Found(path, rev) == [raised |-> FALSE, path |-> path, rev |-> rev, message |-> ""]
Raise(message) == [raised |-> TRUE, path |-> "", rev |-> "", message |-> message]

\* As find_data_file, trying the Rev 5 and Rev 4 names when the given path
\* does not exist.
find_data_file_FallsBack(user_path, rev5_name, rev4_name) ==
    IF user_path # "" /\ user_path \in files THEN Found(user_path, "")
    ELSE IF rev5_name \in files THEN Found(rev5_name, "Rev 5")
    ELSE IF rev4_name \in files THEN Found(rev4_name, "Rev 4 (fallback)")
    ELSE Raise(NoDataFiles)

\* find_data_file of main; a rev of "" is Python's None
find_data_file(user_path, rev5_name, rev4_name) ==
    IF user_path # ""
    THEN IF user_path \in files
         THEN Found(user_path, "")
         ELSE Raise(SpecifiedNotFound)
    ELSE IF rev5_name \in files THEN Found(rev5_name, "Rev 5")
    ELSE IF rev4_name \in files THEN Found(rev4_name, "Rev 4 (fallback)")
    ELSE Raise(NoDataFiles)

\* controls_path, controls_rev = find_data_file(args.controls, ...); the
\* exception, when raised, leaves main
FindControls ==
    /\ pc = "find_controls"
    /\ LET r == find_data_file(args.controls, R5Controls, R4Controls)
       IN  IF r.raised
           THEN /\ error' = r.message
                /\ pc' = "raised"
                /\ UNCHANGED controls_path
           ELSE /\ controls_path' = [path |-> r.path, rev |-> r.rev]
                /\ pc' = "find_cci"
                /\ UNCHANGED error
    /\ UNCHANGED <<args, files, cci_path, summary, inputVars, level_data, di,
                   lookupVars, withdrawn_controls, reconVars, loopVars,
                   stats, all_stats, strVars>>

\* cci_path, cci_rev = find_data_file(args.cci, ...)
FindCci ==
    /\ pc = "find_cci"
    /\ LET r == find_data_file(args.cci, R5Cci, R4Cci)
       IN  IF r.raised
           THEN /\ error' = r.message
                /\ pc' = "raised"
                /\ UNCHANGED cci_path
           ELSE /\ cci_path' = [path |-> r.path, rev |-> r.rev]
                /\ pc' = "load_controls"
                /\ UNCHANGED error
    /\ UNCHANGED <<args, files, controls_path, summary, inputVars, level_data, di,
                   lookupVars, withdrawn_controls, reconVars, loopVars,
                   stats, all_stats, strVars>>

LoadComparison ==
    /\ pc = "load_comparison"
    /\ withdrawn_controls' = load_comparison_data(comparison).withdrawn
    /\ pc' = "reconcile"
    /\ li' = 1
    /\ UNCHANGED <<fileVars, summary, inputVars, level_data, di, lookupVars, reconVars, ci,
                   controls, stats, all_stats, strVars>>

\* for level_name, controls in level_data.items(): the two empty lists
ReconcileBegin ==
    /\ pc = "reconcile"
    /\ li <= Len(LevelOrder)
    /\ controls' = level_data[LevelOrder[li]]
    /\ rev5_controls' = <<>>
    /\ rev4_controls' = <<>>
    /\ ci' = 1
    /\ pc' = "reconcile_loop"
    /\ UNCHANGED <<fileVars, summary, inputVars, level_data, di, lookupVars, withdrawn_controls,
                   rev5_level_data, rev4_only_controls, li, stats, all_stats,
                   strVars>>

ReconcileStep ==
    /\ pc = "reconcile_loop"
    /\ ci <= Len(controls)
    /\ LET acc == ReconcileBody([rev5 |-> rev5_controls, rev4 |-> rev4_controls],
                                controls[ci], withdrawn_controls)
       IN  /\ rev5_controls' = acc.rev5
           /\ rev4_controls' = acc.rev4
    /\ ci' = ci + 1
    /\ UNCHANGED <<pc, fileVars, summary, inputVars, level_data, di, lookupVars, withdrawn_controls,
                   rev5_level_data, rev4_only_controls, li, controls, stats,
                   all_stats, strVars>>

\* the level's two lists stored; the withdrawn one only when not empty
ReconcileEnd ==
    /\ pc = "reconcile_loop"
    /\ ci > Len(controls)
    /\ rev5_level_data' = DictSet(rev5_level_data, LevelOrder[li], rev5_controls)
    /\ rev4_only_controls' =
          IF rev4_controls # <<>>
          THEN DictSet(rev4_only_controls, LevelOrder[li], rev4_controls)
          ELSE rev4_only_controls
    /\ li' = li + 1
    /\ pc' = "reconcile"
    /\ UNCHANGED <<fileVars, summary, inputVars, level_data, di, lookupVars, withdrawn_controls,
                   rev5_controls, rev4_controls, ci, controls, stats,
                   all_stats, strVars>>

\* all levels reconciled: all_stats = {}, level_names = list(level_data.keys())
ReconcileDone ==
    /\ pc = "reconcile"
    /\ li > Len(LevelOrder)
    /\ all_stats' = EmptyDict
    /\ li' = 1
    /\ pc' = "sheets"
    /\ UNCHANGED <<fileVars, summary, inputVars, level_data, di, lookupVars, withdrawn_controls,
                   reconVars, ci, controls, stats, strVars>>

\* create_level_sheet(wb, level_name, rev5_level_data.get(level_name, []), ...)
\* As SheetBegin, the sheet given the level as loaded.
SheetBegin_WholeLevel ==
    /\ pc = "sheets"
    /\ li <= Len(LevelOrder)
    /\ controls' = DictGet(level_data, LevelOrder[li], <<>>)
    /\ stats' = EmptyStats
    /\ ci' = 1
    /\ pc' = "sheet_loop"
    /\ UNCHANGED <<fileVars, summary, inputVars, level_data, di, lookupVars,
                   withdrawn_controls, reconVars, li, all_stats, strVars>>

\* stats = create_level_sheet(wb, level_name, controls, ...), entered
SheetBegin ==
    /\ pc = "sheets"
    /\ li <= Len(LevelOrder)
    /\ controls' = DictGet(rev5_level_data, LevelOrder[li], <<>>)
    /\ stats' = EmptyStats
    /\ ci' = 1
    /\ pc' = "sheet_loop"
    /\ UNCHANGED <<fileVars, summary, inputVars, level_data, di, lookupVars, withdrawn_controls,
                   reconVars, li, all_stats, strVars>>

SheetStep ==
    /\ pc = "sheet_loop"
    /\ ci <= Len(controls)
    /\ stats' = SheetLoopBody(stats, controls[ci], controls_lookup, cci_lookup)
    /\ ci' = ci + 1
    /\ UNCHANGED <<pc, fileVars, summary, inputVars, level_data, di, lookupVars, withdrawn_controls,
                   reconVars, li, controls, all_stats, strVars>>

\* return stats; all_stats[level_name] = stats
SheetEnd ==
    /\ pc = "sheet_loop"
    /\ ci > Len(controls)
    /\ all_stats' = DictSet(all_stats, LevelOrder[li], stats)
    /\ li' = li + 1
    /\ pc' = "sheets"
    /\ UNCHANGED <<fileVars, summary, inputVars, level_data, di, lookupVars, withdrawn_controls,
                   reconVars, ci, controls, stats, strVars>>

\* the remaining sheets, the workbook and the printed summary read the
\* statistics and change none of them
SheetsDone ==
    /\ pc = "sheets"
    /\ li > Len(LevelOrder)
    /\ pc' = "summary"
    /\ li' = 1
    /\ UNCHANGED <<fileVars, summary, inputVars, level_data, di, lookupVars,
                   withdrawn_controls, reconVars, ci, controls, stats,
                   all_stats, strVars>>

-----------------------------------------------------------------------------
(* create_summary_sheet: the overview table                                *)

RECURSIVE Gcd(_, _)
Gcd(a, b) == IF b = 0 THEN a ELSE Gcd(b, a % b)

\* a / b is a float without error: the reduced denominator is a power of 2
IsExactQuotient(a, b) ==
    LET d == b \div Gcd(a, b)
    IN  \E k \in 0..d : 2^k = d

\* As avg_ccis, the quotient cut after two decimals.
avg_ccis_Truncated(total_ccis, total_controls) ==
    IF total_controls > 0 THEN {(100 * total_ccis) \div total_controls} ELSE {0}

\* round(total_ccis / total_controls, 2) if total_controls > 0 else 0, in
\* hundredths.  round() rounds the float to the nearest hundredth; when the
\* quotient lies half-way, an exact float goes to the even hundredth and an
\* inexact one to the side its representation error fell on, which is
\* either.
avg_ccis(total_ccis, total_controls) ==
    IF total_controls > 0
    THEN LET q == (100 * total_ccis) \div total_controls
             r == (100 * total_ccis) % total_controls
         IN  IF 2 * r < total_controls THEN {q}
             ELSE IF 2 * r > total_controls THEN {q + 1}
             ELSE IF IsExactQuotient(total_ccis, total_controls)
                  THEN {IF q % 2 = 0 THEN q ELSE q + 1}
                  ELSE {q, q + 1}
    ELSE {0}

\* stats = all_stats.get(level_name, {}); stats.get(key, 0)
StatsGet(level_name, key) ==
    IF level_name \in DOMAIN all_stats THEN all_stats[level_name][key] ELSE 0

\* one row of the overview table
SummaryStep ==
    /\ pc = "summary"
    /\ li <= Len(LevelOrder)
    /\ LET level_name == LevelOrder[li]
           total_controls == StatsGet(level_name, "total_controls")
           total_ccis == StatsGet(level_name, "total_ccis")
       IN  \E avg \in avg_ccis(total_ccis, total_controls) :
               summary' = Append(summary, [level          |-> level_name,
                                           total_controls |-> total_controls,
                                           total_ccis     |-> total_ccis,
                                           avg_ccis       |-> avg])
    /\ li' = li + 1
    /\ UNCHANGED <<pc, fileVars, inputVars, level_data, di, lookupVars,
                   withdrawn_controls, reconVars, ci, controls, stats,
                   all_stats, strVars>>

\* the charts and the family table read the statistics; wb.save
SummaryDone ==
    /\ pc = "summary"
    /\ li > Len(LevelOrder)
    /\ pc' = "done"
    /\ UNCHANGED <<fileVars, summary, inputVars, level_data, di, lookupVars,
                   withdrawn_controls, reconVars, loopVars, stats, all_stats,
                   strVars>>

-----------------------------------------------------------------------------
(* Spec: main run on every short first level                               *)

MaxLevelLen == 2  \* the longest list of identifiers of the first level

S_ac1  == <<"a","c","-","1">>
S_AC2  == <<"A","C","-","2">>
S_ABC1 == <<"A","B","C","-","1">>
S_XYZQ == <<"X","Y","Z","Q">>

\* identifiers as a level file spells them
LevelStrings == {S_ac1, S_AC02, S_SA99, S_Blank, S_ABC1, S_XYZQ}

SecondLevels == {<<>>, <<S_AC02, S_SA99>>}

CatalogFiles ==
    {<<CatRec(S_AC1, "n1")>>,
     <<CatRec(S_ac01, "n1"), CatRec(S_AC02, "n2"), (K_Identifier :> S_SA99)>>}

CciFiles ==
    {<<>>,
     <<CciRec(S_AC1, "CCI-1"), CciRec(S_ac01, "CCI-2"),
       CciRec(S_SA99, "CCI-1"), CciRec(S_ABC1, "CCI-2")>>}

ComparisonFiles ==
    {NoFile,
     FileOf((K_New :> <<S_AC01>>)),
     FileOf((K_Withdrawn :> <<S_AC02>>) @@ (K_New :> <<>>)),
     FileOf((K_Withdrawn :> <<S_AC2, S_SA99, S_XYZQ>>) @@ (K_New :> <<>>))}

\* what is given on the command line and what is on disk
UserControls == "my_controls.json"
UserCci == "my_cci.json"

FileSystems ==
    {[args |-> [controls |-> "", cci |-> ""], files |-> {R5Controls, R5Cci}],
     [args |-> [controls |-> UserControls, cci |-> ""],
      files |-> {R5Controls, R4Controls, R5Cci}],
     [args |-> [controls |-> "", cci |-> ""], files |-> {R4Controls}]}

Init ==
    /\ level_input \in
          {("DL-1" :> a) @@ ("DL-2" :> b) :
              a \in StringsUpTo(LevelStrings, MaxLevelLen), b \in SecondLevels}
    /\ controlsData \in CatalogFiles
    /\ cciData \in CciFiles
    /\ comparison \in ComparisonFiles
    /\ \E fs \in FileSystems : args = fs.args /\ files = fs.files
    /\ controls_path = NoPath
    /\ cci_path = NoPath
    /\ error = ""
    /\ summary = <<>>
    /\ pc = "load_levels"
    /\ level_data = EmptyDict
    /\ di = 1
    /\ controls_lookup = EmptyDict
    /\ cci_lookup = EmptyDict
    /\ withdrawn_controls = {}
    /\ rev5_level_data = EmptyDict
    /\ rev4_only_controls = EmptyDict
    /\ li = 1
    /\ ci = 1
    /\ controls = <<>>
    /\ rev5_controls = <<>>
    /\ rev4_controls = <<>>
    /\ stats = EmptyStats
    /\ all_stats = EmptyDict
    /\ StringsIdle

Next ==
    \/ LoadLevelsJson \/ LoadLevelsCsv
    \/ FindControls \/ FindCci
    \/ LoadControlsStep \/ LoadControlsReturn
    \/ LoadCciStep \/ LoadCciReturn
    \/ LoadComparison
    \/ ReconcileBegin \/ ReconcileStep \/ ReconcileEnd \/ ReconcileDone
    \/ SheetBegin \/ SheetStep \/ SheetEnd \/ SheetsDone
    \/ SummaryStep \/ SummaryDone

Spec == Init /\ [][Next]_vars

-----------------------------------------------------------------------------
(* SpecSummary: create_summary_sheet on every small statistics map         *)

MaxTotalControls == 8   \* the largest total_controls of a level
MaxTotalCcis == 12      \* the largest total_ccis of a level

\* the statistics create_level_sheet can return, as far as the overview
\* table reads them: a level without controls has no CCIs
StatsTotals ==
    {[EmptyStats EXCEPT !.total_controls = n, !.total_ccis = c] :
        n \in 1..MaxTotalControls, c \in 0..MaxTotalCcis}
    \cup {EmptyStats}

InitSummary ==
    /\ \E names \in SUBSET {LevelOrder[i] : i \in 1..Len(LevelOrder)} :
           all_stats \in [names -> StatsTotals]
    /\ pc = "summary"
    /\ FilesIdle
    /\ level_input = EmptyDict
    /\ level_data = EmptyDict
    /\ controlsData = <<>>
    /\ cciData = <<>>
    /\ comparison = NoFile
    /\ di = 1
    /\ controls_lookup = EmptyDict
    /\ cci_lookup = EmptyDict
    /\ withdrawn_controls = {}
    /\ rev5_level_data = EmptyDict
    /\ rev4_only_controls = EmptyDict
    /\ li = 1
    /\ ci = 1
    /\ controls = <<>>
    /\ rev5_controls = <<>>
    /\ rev4_controls = <<>>
    /\ stats = EmptyStats
    /\ StringsIdle

NextSummary == SummaryStep \/ SummaryDone

SpecSummary == InitSummary /\ [][NextSummary]_vars

-----------------------------------------------------------------------------
(* SpecFind: main on every command line and every set of files on disk     *)

InitFind ==
    /\ level_input = ("DL-1" :> <<S_ac1, S_SA99>>) @@ ("DL-2" :> <<S_AC02>>)
    /\ controlsData = <<CatRec(S_AC1, "n1")>>
    /\ cciData = <<CciRec(S_AC1, "CCI-1")>>
    /\ comparison = FileOf((K_Withdrawn :> <<S_AC02>>) @@ (K_New :> <<>>))
    /\ args \in [controls : {"", UserControls}, cci : {"", UserCci}]
    /\ files \in SUBSET {UserControls, UserCci, R5Controls, R4Controls, R5Cci, R4Cci}
    /\ controls_path = NoPath
    /\ cci_path = NoPath
    /\ error = ""
    /\ summary = <<>>
    /\ pc = "load_levels"
    /\ level_data = EmptyDict
    /\ di = 1
    /\ controls_lookup = EmptyDict
    /\ cci_lookup = EmptyDict
    /\ withdrawn_controls = {}
    /\ rev5_level_data = EmptyDict
    /\ rev4_only_controls = EmptyDict
    /\ li = 1
    /\ ci = 1
    /\ controls = <<>>
    /\ rev5_controls = <<>>
    /\ rev4_controls = <<>>
    /\ stats = EmptyStats
    /\ all_stats = EmptyDict
    /\ StringsIdle

SpecFind == InitFind /\ [][Next]_vars

-----------------------------------------------------------------------------
(* The strings the string functions are run on                             *)

MaxLen == 4       \* every string up to this length over Sigma is an input
MaxDigits == 3    \* the longest digit run of a composed identifier

Sigma == {"A", "c", "-", "0", "1", "(", ")", " "}

ShortStrings == StringsUpTo(Sigma, MaxLen)

DigitStrings == StringsUpTo({"0", "1"}, MaxDigits) \ {<<>>}

FamilyStrings == {<<"A","C">>, <<"a","c">>, <<"A","c">>, <<"S","A">>,
                  <<"A","B","C">>, <<"a","b","c">>, <<"A">>,
                  <<"X","Y","Z","Q">>}

EnhancementStrings ==
    {<<>>, <<"(",")">>, <<"(","1">>}
    \cup {<<"(">> \o d \o <<")">> : d \in DigitStrings}

Paddings == {<<<<>>, <<>>>>, <<<<" ">>, <<>>>>, <<<<" ">>, <<" ">>>>}

\* an identifier as the input files spell it: family, hyphen, number,
\* optional enhancement, with or without surrounding blanks
ComposedStrings ==
    {p[1] \o f \o <<"-">> \o n \o e \o p[2] :
        p \in Paddings, f \in FamilyStrings,
        n \in DigitStrings, e \in EnhancementStrings}

NamedStrings ==
    {<<"X","Y","Z","Q">>, <<"S","A","-","9","9">>,
     <<"A","C","-","2","(","1",")">>, <<"A","C","-","0","1","(","0","1",")">>,
     <<"a","b","c","-","1">>, <<"A","C","-","1","a">>}

RawStrings == ShortStrings \cup ComposedStrings \cup NamedStrings

-----------------------------------------------------------------------------
(* SpecNorm: the string functions applied to one input                     *)

InitNorm ==
    /\ raw \in RawStrings
    /\ orig = raw
    /\ edits = {}
    /\ op = "none"
    /\ res = <<>>
    /\ PipelineIdle

Normalize ==
    /\ op = "none"
    /\ op' = "normalize"
    /\ res' = normalize_control_id(raw)
    /\ UNCHANGED <<raw, orig, edits, pipeVars>>

Validate ==
    /\ op = "none"
    /\ op' = "validate"
    /\ res' = validate_control_id(raw)
    /\ UNCHANGED <<raw, orig, edits, pipeVars>>

Family ==
    /\ op = "none"
    /\ op' = "family"
    /\ res' = get_control_family(raw)
    /\ UNCHANGED <<raw, orig, edits, pipeVars>>

\* main and create_level_sheet hand the normalizer's result to the
\* normalizer, the classifier and the validator again
Feed ==
    /\ op = "normalize"
    /\ raw' = res
    /\ op' = "none"
    /\ res' = <<>>
    /\ edits' = edits \cup {"fed"}
    /\ UNCHANGED <<orig, pipeVars>>

NextNorm == Normalize \/ Validate \/ Family \/ Feed

SpecNorm == InitNorm /\ [][NextNorm]_vars

-----------------------------------------------------------------------------
(* SpecEquiv: two spellings of one identifier                              *)

MaxEdits == 2     \* how many characters a respelling may add

\* the spellings the respellings start from
SeedStrings ==
    {f \o <<"-">> \o n \o e :
        f \in {<<"A","C">>, <<"a","c">>, <<"S","A">>, <<"A","B","C">>},
        n \in {<<"1">>, <<"1","0">>, <<"1","0","0">>},
        e \in {<<>>, <<"(","1",")">>, <<"(","1">>}}
    \cup {<<"X","Y","Z","Q">>, <<>>, <<"A","C","-","1","a">>}

InsertAt(s, i, c) == SubSeq(s, 1, i - 1) \o <<c>> \o SubSeq(s, i, Len(s))

SwapCaseChar(c) == IF IsUpperChar(c) THEN LowerChar(c) ELSE UpperChar(c)

InitEquiv ==
    /\ orig \in SeedStrings
    /\ raw = orig
    /\ edits = {}
    /\ op = "none"
    /\ res = <<>>
    /\ PipelineIdle

CanGrow == op = "none" /\ Len(raw) < Len(orig) + MaxEdits

\* one more leading zero in front of a number
PadZero ==
    /\ CanGrow
    /\ \E i \in 1..Len(raw) :
          /\ IsDigitChar(raw[i])
          /\ i = 1 \/ ~IsDigitChar(raw[i - 1])
          /\ raw' = InsertAt(raw, i, "0")
    /\ edits' = edits \cup {"pad"}
    /\ UNCHANGED <<orig, op, res, pipeVars>>

\* one letter in the other case
SwapCase ==
    /\ op = "none"
    /\ \E i \in 1..Len(raw) :
          /\ IsUpperChar(raw[i]) \/ IsLowerChar(raw[i])
          /\ raw' = [raw EXCEPT ![i] = SwapCaseChar(raw[i])]
    /\ edits' = edits \cup {"case"}
    /\ UNCHANGED <<orig, op, res, pipeVars>>

\* one more blank in front or at the end
AddOuterSpace ==
    /\ CanGrow
    /\ raw' \in {<<" ">> \o raw, raw \o <<" ">>}
    /\ edits' = edits \cup {"outer"}
    /\ UNCHANGED <<orig, op, res, pipeVars>>

\* one more blank between two characters of the identifier
AddInnerSpace ==
    /\ CanGrow
    /\ \E i \in 2..Len(raw) :
          /\ ~IsSpaceChar(raw[i - 1]) /\ ~IsSpaceChar(raw[i])
          /\ raw' = InsertAt(raw, i, " ")
    /\ edits' = edits \cup {"inner"}
    /\ UNCHANGED <<orig, op, res, pipeVars>>

\* both spellings normalized
NormalizePair ==
    /\ op = "none"
    /\ op' = "normalize-pair"
    /\ res' = <<normalize_control_id(orig), normalize_control_id(raw)>>
    /\ UNCHANGED <<raw, orig, edits, pipeVars>>

NextEquiv ==
    PadZero \/ SwapCase \/ AddOuterSpace \/ AddInnerSpace \/ NormalizePair

SpecEquiv == InitEquiv /\ [][NextEquiv]_vars

-----------------------------------------------------------------------------
(* The shapes the claims speak of, stated on the characters                *)

\* s is: famMin..famMax uppercase letters, a hyphen, digMin or more digits
\* (exactly digMin when exact), optionally followed by a parenthesized
\* group of digits under the same rule
IdShape(s, famMin, famMax, digMin, exact) ==
    \E k \in famMin..famMax, n \in 1..Len(s), e \in 0..Len(s) :
        LET okLen(m) == IF exact THEN m = digMin ELSE m >= digMin
            numAt    == k + 2
            enhAt    == k + n + 3
        IN  /\ Len(s) = k + 1 + n + (IF e = 0 THEN 0 ELSE e + 2)
            /\ \A i \in 1..k : IsUpperChar(s[i])
            /\ s[k + 1] = "-"
            /\ okLen(n)
            /\ \A i \in numAt..(numAt + n - 1) : IsDigitChar(s[i])
            /\ e > 0 =>
                  /\ okLen(e)
                  /\ s[k + n + 2] = "("
                  /\ \A i \in enhAt..(enhAt + e - 1) : IsDigitChar(s[i])
                  /\ s[Len(s)] = ")"

\* two uppercase letters, hyphen, digits, optional parenthesized digits
IsIdentifier(s) == IdShape(s, 2, 2, 1, FALSE)

\* ^[A-Z]{2}-\d{2}(\(\d{2}\))?$
IsCanonical(s) == IdShape(s, 2, 2, 2, TRUE)

\* 2-3 uppercase letters, hyphen, digits, optional parenthesized digits
IsValidShape(s) == IdShape(s, 2, 3, 1, FALSE)

\* o is the number i written with at least two digits: two digits when the
\* value is below 100, otherwise the value's own digits
PaddedNumber(o, i) ==
    /\ IsDigits(o)
    /\ IntOf(o) = IntOf(i)
    /\ Len(o) >= 2
    /\ IntOf(i) < 100 => Len(o) = 2
    /\ Len(o) > 2 => o[1] # "0"

-----------------------------------------------------------------------------
(* Claims on the string functions                                          *)

\* C1: normalize is idempotent: normalizing what normalize returned, for any
\* input (matching or not, empty, blank, mixed case, over-padded, 3+ digits),
\* returns it unchanged.
Thm_C1_Idempotent ==
    op = "normalize" => normalize_control_id(res) = res

Wit_C1_OverPadded ==
    /\ op = "normalize"
    /\ raw = <<" ","a","c","-","0","0","1"," ">>
    /\ res = <<"A","C","-","0","1">>

CE_C10_StringAsGiven ==
    op = "validate" => (res = TRUE => IsValidShape(raw))

\* C10 as amended: validateFormat returns true exactly when the string,
\* trimmed and upper-cased, is of that shape; AC-01(01) is valid, XYZQ, the
\* empty string and a blank string are not.
Thm_C10_AfterStripUpper ==
    op = "validate" =>
        /\ res = IsValidShape(StripUpper(raw))
        /\ raw = <<"A","C","-","0","1","(","0","1",")">> => res = TRUE
        /\ raw \in {<<"X","Y","Z","Q">>, <<>>, <<" ">>} => res = FALSE

Wit_C10_LowerCasePadded ==
    /\ op = "validate"
    /\ raw = <<" ","a","b","c","-","1","(","1",")"," ">>
    /\ res = TRUE

\* C5 as stated: two strings that differ only in zero-padding of the
\* numbers, letter case or whitespace normalize to the same value.
CE_C5_AnySpelling ==
    op = "normalize-pair" => res[1] = res[2]

\* C5 as amended: two strings that differ only in letter case or in leading
\* and trailing whitespace normalize to the same value, and so do two
\* strings that differ in zero-padding of the numbers when they match the
\* normalizer's pattern (two letters, hyphen, digits, optional enhancement).
Thm_C5_SameCanonical ==
    (/\ op = "normalize-pair"
     /\ "inner" \notin edits
     /\ "pad" \in edits => IsIdentifier(StripUpper(orig)))
        => res[1] = res[2]

Wit_C5_PaddedCaseSpace ==
    /\ op = "normalize-pair"
    /\ orig = <<"A","C","-","1">>
    /\ raw = <<" ","a","C","-","0","1">>
    /\ edits = {"pad", "case", "outer"}
    /\ res = <<<<"A","C","-","0","1">>, <<"A","C","-","0","1">>>>


-----------------------------------------------------------------------------
(* Claims on the lookup builders                                           *)

\* how many records of the controls file have been read
ControlsRead == IF pc = "load_controls" THEN di - 1 ELSE Len(controlsData)

\* how many records of the CCI file have been read
CciRead ==
    IF pc = "load_controls" THEN 0
    ELSE IF pc = "load_cci" THEN di - 1 ELSE Len(cciData)

\* the canonical identifier of record i of a file, '' when it has none
RecordId(data, key, i) ==
    normalize_control_id(IF key \in DOMAIN data[i] THEN data[i][key] ELSE <<>>)

FieldOr(rec, key) == IF key \in DOMAIN rec THEN rec[key] ELSE ""

\* C6: the catalog lookup has exactly one entry per distinct non-empty
\* normalized identifier read so far, holding the fields of the last record
\* with that identifier (missing fields as ''); records whose normalized
\* identifier is empty add no entry.
Thm_C6_LastWriteWins ==
    LET n == ControlsRead
        idOf(i) == RecordId(controlsData, K_Identifier, i)
    IN  /\ DOMAIN controls_lookup = {idOf(i) : i \in 1..n} \ {<<>>}
        /\ \A k \in DOMAIN controls_lookup :
              LET last == CHOOSE i \in 1..n :
                              idOf(i) = k /\ \A j \in (i + 1)..n : idOf(j) # k
                  rec  == controlsData[last]
              IN  controls_lookup[k] =
                      [name             |-> FieldOr(rec, K_Name),
                       text             |-> FieldOr(rec, K_Text),
                       discussion       |-> FieldOr(rec, K_Discussion),
                       related_controls |-> FieldOr(rec, K_Related)]

Wit_C6_SecondRecordKept ==
    /\ pc = "load_cci"
    /\ controlsData = <<CatRec(S_AC1, "n1"), CatRec(S_ac01, "n2"), (K_Name :> "n1")>>
    /\ DOMAIN controls_lookup = {S_AC01}
    /\ controls_lookup[S_AC01].name = "n2"

\* the entries of records 1..n of the CCI file whose identifier is k
RECURSIVE EntriesFor(_, _)
EntriesFor(k, n) ==
    IF n = 0 THEN <<>>
    ELSE IF RecordId(cciData, K_Control, n) = k
         THEN Append(EntriesFor(k, n - 1),
                     [cci_number  |-> FieldOr(cciData[n], K_CciNumber),
                      description |-> FieldOr(cciData[n], K_Description),
                      index       |-> FieldOr(cciData[n], K_Index)])
         ELSE EntriesFor(k, n - 1)

\* the sum of f[x] over the x of S
RECURSIVE SumFn(_, _)
SumFn(f, S) ==
    IF S = {} THEN 0
    ELSE LET x == CHOOSE y \in S : TRUE IN f[x] + SumFn(f, S \ {x})

\* C7: the requirement lookup never overwrites: under each canonical
\* identifier it holds one entry per record read so far with that
\* identifier, in input order; the entries number as many as the records with
\* a non-empty normalized identifier, and no key maps to an empty list.
Thm_C7_AppendOnly ==
    LET n == CciRead
        idOf(i) == RecordId(cciData, K_Control, i)
        len == [k \in DOMAIN cci_lookup |-> Len(cci_lookup[k])]
    IN  /\ DOMAIN cci_lookup = {idOf(i) : i \in 1..n} \ {<<>>}
        /\ \A k \in DOMAIN cci_lookup :
              cci_lookup[k] = EntriesFor(k, n) /\ cci_lookup[k] # <<>>
        /\ SumFn(len, DOMAIN cci_lookup)
              = Cardinality({i \in 1..n : idOf(i) # <<>>})

Wit_C7_BothKeptInOrder ==
    /\ pc = "load_comparison"
    /\ cciData = <<CciRec(S_AC1, "CCI-2"), CciRec(S_Blank, "CCI-1"),
                   CciRec(S_ac01, "CCI-1")>>
    /\ DOMAIN cci_lookup = {S_AC01}
    /\ Len(cci_lookup[S_AC01]) = 2
    /\ cci_lookup[S_AC01][1].cci_number = "CCI-2"
    /\ cci_lookup[S_AC01][2].cci_number = "CCI-1"

-----------------------------------------------------------------------------
(* Claims on main and create_level_sheet                                   *)

InWithdrawn(x) == x \in withdrawn_controls

NotWithdrawn(x) == x \notin withdrawn_controls

NormalizeAll(cs) == [i \in 1..Len(cs) |-> normalize_control_id(cs[i])]

\* cur and leg are the order-preserving split of the normalized src by
\* membership in the withdrawn set
IsPartition(src, cur, leg) ==
    LET norm == NormalizeAll(src)
    IN  /\ Len(cur) + Len(leg) = Len(src)
        /\ SeqToSet(cur) \cap SeqToSet(leg) = {}
        /\ SeqToSet(cur) \cup SeqToSet(leg) = SeqToSet(norm)
        /\ cur = SelectSeq(norm, NotWithdrawn)
        /\ leg = SelectSeq(norm, InWithdrawn)

\* C3: reconciliation is an order-preserving partition: every identifier of
\* a level, normalized, is in exactly one of current (not withdrawn) and
\* legacy (withdrawn), none is dropped, the two share no element, each keeps
\* the source order and their lengths add up to the level's length. Holds
\* after every identifier of the loop and of every level stored.
Thm_C3_Partition ==
    /\ pc = "reconcile_loop" =>
          IsPartition(SubSeq(controls, 1, ci - 1), rev5_controls, rev4_controls)
    /\ \A name \in DOMAIN rev5_level_data :
          IsPartition(level_data[name], rev5_level_data[name],
                      DictGet(rev4_only_controls, name, <<>>))
    /\ pc \in {"sheets", "sheet_loop", "done"} =>
          DOMAIN rev5_level_data = DOMAIN level_data

Wit_C3_OneWithdrawn ==
    /\ pc = "sheets"
    /\ level_data["DL-1"] = <<S_AC01, S_AC02>>
    /\ withdrawn_controls = {S_AC02}
    /\ rev5_level_data["DL-1"] = <<S_AC01>>
    /\ rev4_only_controls["DL-1"] = <<S_AC02>>

\* the identifiers of cs that create_level_sheet does not skip
Counted(cs) == SelectSeq(NormalizeAll(cs), NonEmpty)

\* the number of CCI entries of the identifiers cs[1..n]
RECURSIVE CciTotal(_, _)
CciTotal(cs, n) ==
    IF n = 0 THEN 0
    ELSE CciTotal(cs, n - 1)
         + (IF cs[n] \in DOMAIN cci_lookup THEN Len(cci_lookup[cs[n]]) ELSE 0)

\* C4 as stated: totalControls of a level equals the length of its current
\* sequence and totalRequirements the sum of the requirement counts of its
\* identifiers, an identifier absent from the lookup counting zero.
CE_C4_CountsEveryIdentifier ==
    \A name \in DOMAIN all_stats :
        LET cur == rev5_level_data[name]
        IN  /\ all_stats[name].total_controls = Len(cur)
            /\ all_stats[name].total_ccis = CciTotal(cur, Len(cur))

\* C4 as amended: totalControls equals the number of non-empty identifiers
\* of the current sequence (an empty identifier is skipped), and
\* totalRequirements the sum of the requirement counts of its identifiers,
\* an identifier absent from the lookup counting zero. Holds after every
\* identifier of the loop and of every level recorded.
Thm_C4_CountsNonEmpty ==
    /\ pc = "sheet_loop" =>
          LET done == SubSeq(controls, 1, ci - 1)
          IN  /\ stats.total_controls = Len(Counted(done))
              /\ stats.total_ccis = CciTotal(done, Len(done))
    /\ \A name \in DOMAIN all_stats :
          LET cur == rev5_level_data[name]
          IN  /\ all_stats[name].total_controls = Len(Counted(cur))
              /\ all_stats[name].total_ccis = CciTotal(cur, Len(cur))

Wit_C4_TwoControlsThreeCcis ==
    /\ pc = "done"
    /\ rev5_level_data["DL-1"] = <<S_AC01, S_XYZQ>>
    /\ rev5_level_data["DL-2"] = <<S_AC02, S_SA99>>
    /\ S_AC01 \in DOMAIN cci_lookup
    /\ all_stats["DL-1"].total_controls = 2
    /\ all_stats["DL-1"].total_ccis = 2
    /\ all_stats["DL-2"].total_ccis = 1

NotInCatalog(x) == x \notin DOMAIN controls_lookup

\* C8: notInCatalog holds exactly the processed identifiers that are no key
\* of the catalog lookup, once per occurrence and in encounter order, and
\* each of them is counted in totalControls. Holds after every identifier
\* of the loop and of every level recorded.
Thm_C8_NotInCatalog ==
    /\ pc = "sheet_loop" =>
          LET done == Counted(SubSeq(controls, 1, ci - 1))
          IN  /\ stats.not_in_reference = SelectSeq(done, NotInCatalog)
              /\ stats.total_controls = Len(done)
    /\ \A name \in DOMAIN all_stats :
          LET done == Counted(rev5_level_data[name])
          IN  /\ all_stats[name].not_in_reference = SelectSeq(done, NotInCatalog)
              /\ all_stats[name].total_controls = Len(done)

Wit_C8_SA99 ==
    /\ pc = "done"
    /\ DOMAIN controls_lookup = {S_AC01}
    /\ rev5_level_data["DL-1"] = <<S_SA99>>
    /\ all_stats["DL-1"].not_in_reference = <<S_SA99>>
    /\ all_stats["DL-1"].total_controls = 1

\* the raw identifiers of a level that do not match the normalizer's pattern
Malformed(name) ==
    {r \in SeqToSet(level_input[name]) : ~IsIdentifier(StripUpper(r))}

\* s starts with two or three uppercase letters and a hyphen
HasFamily(s) ==
    \E k \in 2..3 :
        Len(s) > k /\ s[k + 1] = "-" /\ \A i \in 1..k : IsUpperChar(s[i])

\* main has a next step: one of its loops or loaders is at work
Running ==
    \/ pc \in {"load_levels", "find_controls", "find_cci", "load_comparison",
               "reconcile", "sheets", "summary"}
    \/ pc \in {"load_controls", "load_cci"} /\ di \in 1..(Len(controlsData) + Len(cciData) + 1)
    \/ pc \in {"reconcile_loop", "sheet_loop"} /\ ci \in 1..(Len(controls) + 1)

\* C9 as stated: every malformed identifier a level's sheet processes (not
\* blank, not moved to the withdrawn list) is listed in
\* unknownFamilyControls of that level's statistics.
CE_C9_AlwaysSurfaced ==
    pc = "done" =>
        \A name \in DOMAIN level_input : \A r \in Malformed(name) :
            (StripUpper(r) # <<>> /\ StripUpper(r) \notin withdrawn_controls)
                => StripUpper(r) \in SeqToSet(all_stats[name].unknown_controls)

\* C9 as amended: a malformed identifier never aborts processing (every
\* state before the end has a next step unless a data file was not found,
\* and at the end every level has its statistics), and it is listed in unknownFamilyControls exactly when it is
\* not withdrawn, is not blank and does not start with two or three letters
\* and a hyphen.
Thm_C9_SurfacedWhenNoFamily ==
    /\ pc \notin {"done", "raised"} => Running
    /\ pc = "raised" => error \in {SpecifiedNotFound, NoDataFiles}
    /\ pc = "done" =>
          /\ DOMAIN all_stats = DOMAIN level_input
          /\ \A name \in DOMAIN level_input : \A r \in Malformed(name) :
                LET s == StripUpper(r)
                IN  (s \in SeqToSet(all_stats[name].unknown_controls))
                    = (s # <<>> /\ ~HasFamily(s) /\ s \notin withdrawn_controls)

Wit_C9_OneListedOneNot ==
    /\ pc = "done"
    /\ level_input["DL-1"] = <<S_ABC1, S_XYZQ>>
    /\ withdrawn_controls = {}
    /\ all_stats["DL-1"].unknown_controls = <<S_XYZQ>>
    /\ all_stats["DL-1"].total_controls = 2

-----------------------------------------------------------------------------
(* Further claims on the string functions                                  *)

\* t is s without its leading and trailing blanks, every lower-case letter
\* replaced by its upper-case letter and nothing else changed
IsTrimmedUpper(t, s) ==
    \E i, j \in 0..Len(s) :
        /\ i + j <= Len(s)
        /\ \A k \in 1..i : s[k] = " "
        /\ \A k \in (Len(s) - j + 1)..Len(s) : s[k] = " "
        /\ i + j < Len(s) => (s[i + 1] # " " /\ s[Len(s) - j] # " ")
        /\ Len(t) = Len(s) - i - j
        /\ \A k \in 1..Len(t) :
              IF IsLowerChar(s[i + k])
              THEN IsUpperChar(t[k]) /\ LowerChar(t[k]) = s[i + k]
              ELSE t[k] = s[i + k]

\* C14: on an input that does not match the normalizer's pattern, normalize
\* returns exactly the trimmed, upper-cased input (no padding, no character
\* removed); the empty and the blank string give the empty string, and the
\* 3-letter-family abc-1 gives ABC-1 unpadded.
Thm_C14_PassThrough ==
    (op = "normalize" /\ ~IsIdentifier(StripUpper(raw))) =>
        /\ IsTrimmedUpper(res, raw)
        /\ raw \in {<<>>, <<" ">>, <<" ", " ">>} => res = <<>>
        /\ raw = <<"a","b","c","-","1">> => res = <<"A","B","C","-","1">>

Wit_C14_ThreeLetterFamily ==
    /\ op = "normalize"
    /\ raw = <<" ","a","b","c","-","1"," ">>
    /\ res = <<"A","B","C","-","1">>

\* the place of the first hyphen of s, 0 when it has none
FirstHyphen(s) ==
    IF \E i \in 1..Len(s) : s[i] = "-"
    THEN CHOOSE i \in 1..Len(s) : s[i] = "-" /\ \A j \in 1..(i - 1) : s[j] # "-"
    ELSE 0

\* s starts with a run of 2 or 3 uppercase letters that ends at its first
\* hyphen
StartsWithFamily(s) ==
    /\ FirstHyphen(s) \in {3, 4}
    /\ \A i \in 1..(FirstHyphen(s) - 1) : IsUpperChar(s[i])

\* the family the claim assigns to s
FamilyOfShape(s) ==
    IF StartsWithFamily(s) THEN SubSeq(s, 1, FirstHyphen(s) - 1) ELSE Unknown

\* C15 as stated: familyOf returns the run of 2 or 3 uppercase letters that
\* precedes the first hyphen when the string starts with such a run, and
\* "Unknown" for every other string.
CE_C15_StringAsGiven ==
    op = "family" => res = FamilyOfShape(raw)

\* C15 as amended: familyOf returns the run of 2 or 3 uppercase letters that
\* precedes the first hyphen of the string trimmed and upper-cased, when
\* that string starts with such a run, and "Unknown" otherwise (empty,
\* blank, no hyphen, 1-letter or 4+-letter prefix, non-letter in the
\* prefix); familyOf('AC-01') = 'AC', familyOf('') = 'Unknown'.
Thm_C15_AfterStripUpper ==
    op = "family" =>
        /\ res = FamilyOfShape(StripUpper(raw))
        /\ raw = <<"A","C","-","0","1">> => res = <<"A","C">>
        /\ raw \in {<<>>, <<" ">>, <<"X","Y","Z","Q">>, <<"A","-","1">>,
                    <<"X","Y","Z","Q","-","1">>, <<"A","1","-","1">>}
              => res = Unknown

Wit_C15_ThreeLetters ==
    /\ op = "family"
    /\ raw = <<"A","B","C","-","1","0">>
    /\ res = <<"A","B","C">>

-----------------------------------------------------------------------------
(* Claims on the resolution of the data files                              *)

\* got is what the claim expects of a resolution with command-line path
\* user and default names r5, r4 on the files at hand
ResolvedAsClaimed(user, r5, r4, got) ==
    /\ (user = "" /\ r5 \in files) => got = [path |-> r5, rev |-> "Rev 5"]
    /\ (user = "" /\ r5 \notin files /\ r4 \in files) =>
          got = [path |-> r4, rev |-> "Rev 4 (fallback)"]
    /\ (user = "" /\ r5 \notin files /\ r4 \notin files) =>
          got = NoPath /\ pc = "raised" /\ error = NoDataFiles
    /\ (user # "" /\ user \in files) => got = [path |-> user, rev |-> ""]
    /\ (user # "" /\ user \notin files) =>
          got = NoPath /\ pc = "raised" /\ error = SpecifiedNotFound

\* no lookup built, no record read, no level reconciled, no statistics
NothingBuilt ==
    /\ di = 1
    /\ controls_lookup = EmptyDict
    /\ cci_lookup = EmptyDict
    /\ withdrawn_controls = {}
    /\ rev5_level_data = EmptyDict
    /\ rev4_only_controls = EmptyDict
    /\ rev5_controls = <<>>
    /\ rev4_controls = <<>>
    /\ stats = EmptyStats
    /\ all_stats = EmptyDict

\* C11: with no user path the Rev 5 file is used if it exists, otherwise
\* the Rev 4 file, otherwise main fails with a 'not found' error; a user
\* path that does not exist fails with an error and is never replaced by
\* the Rev 5 or Rev 4 file; the failure happens before any lookup is built
\* or any level is reconciled, and no later step (no record) raises it.
Thm_C11_ResolveOrFail ==
    /\ pc \notin {"load_levels", "find_controls"} =>
          ResolvedAsClaimed(args.controls, R5Controls, R4Controls, controls_path)
    /\ (pc \notin {"load_levels", "find_controls", "find_cci"}
            /\ controls_path # NoPath) =>
          ResolvedAsClaimed(args.cci, R5Cci, R4Cci, cci_path)
    /\ error # "" <=> pc = "raised"
    /\ pc \in {"load_levels", "find_controls", "find_cci", "raised"} => NothingBuilt
    /\ ~NothingBuilt => (error = "" /\ controls_path # NoPath /\ cci_path # NoPath)

Wit_C11_UserPathMissing ==
    /\ pc = "raised"
    /\ args.controls = UserControls
    /\ UserControls \notin files
    /\ {R5Controls, R4Controls} \subseteq files
    /\ error = SpecifiedNotFound
    /\ level_data # EmptyDict

-----------------------------------------------------------------------------
(* Claims on the summary sheet                                             *)

\* h hundredths is a hundredth nearest to a / b
IsNearestHundredth(h, a, b) ==
    LET d == 100 * a - h * b
    IN  2 * (IF d < 0 THEN -d ELSE d) <= b

\* C12: the average written for a level is total_ccis / total_controls
\* rounded to 2 decimal places when total_controls > 0 (12 / 5 gives 2.4)
\* and 0 when total_controls is 0, also for a level name that has no
\* statistics record.
Thm_C12_Average ==
    \A i \in 1..Len(summary) :
        LET row == summary[i]
            name == LevelOrder[i]
        IN  /\ row.level = name
            /\ name \in DOMAIN all_stats =>
                  /\ row.total_controls = all_stats[name].total_controls
                  /\ row.total_ccis = all_stats[name].total_ccis
            /\ name \notin DOMAIN all_stats =>
                  row.total_controls = 0 /\ row.avg_ccis = 0
            /\ row.total_controls = 0 => row.avg_ccis = 0
            /\ row.total_controls > 0 =>
                  IsNearestHundredth(row.avg_ccis, row.total_ccis, row.total_controls)
            /\ (row.total_ccis = 12 /\ row.total_controls = 5) => row.avg_ccis = 240

Wit_C12_TwelveOverFive ==
    /\ Len(summary) = 2
    /\ summary[1].total_ccis = 12 /\ summary[1].total_controls = 5
    /\ summary[1].avg_ccis = 240
    /\ LevelOrder[2] \notin DOMAIN all_stats
    /\ summary[2].avg_ccis = 0

-----------------------------------------------------------------------------
(* Claims on the order of a level's identifiers                            *)

\* the orders of n things
OrdersOf(n) ==
    {p \in [1..n -> 1..n] : \A i, j \in 1..n : p[i] = p[j] => i = j}

\* cs in the order p
Permuted(cs, p) == [i \in 1..Len(cs) |-> cs[p[i]]]

HasUnknownFamily(x) == get_control_family(x) = Unknown

\* C13: the counts of a level (total_controls, total_ccis, families,
\* family_ccis) are the same for every order of the same identifiers, while
\* unknown_controls and not_in_reference list their identifiers in the
\* order the level gives them.
Thm_C13_OrderIndependent ==
    (pc = "sheet_loop" /\ ci > Len(controls)) =>
        /\ stats = create_level_sheet(controls, controls_lookup, cci_lookup)
        /\ \A p \in OrdersOf(Len(controls)) :
              LET cs == Permuted(controls, p)
                  st == create_level_sheet(cs, controls_lookup, cci_lookup)
              IN  /\ st.total_controls = stats.total_controls
                  /\ st.total_ccis = stats.total_ccis
                  /\ st.families = stats.families
                  /\ st.family_ccis = stats.family_ccis
                  /\ st.unknown_controls = SelectSeq(Counted(cs), HasUnknownFamily)
                  /\ st.not_in_reference = SelectSeq(Counted(cs), NotInCatalog)

Wit_C13_TwoOrders ==
    /\ pc = "sheet_loop"
    /\ ci > Len(controls)
    /\ controls = <<S_XYZQ, S_AC01>>
    /\ stats.total_ccis = 2
    /\ stats.unknown_controls = <<S_XYZQ>>
    /\ create_level_sheet(<<S_AC01, S_XYZQ>>, controls_lookup, cci_lookup).total_ccis = 2

-----------------------------------------------------------------------------
(* Claims on the withdrawn set                                             *)

\* the entries of withdrawn_rev4_only as the comparison file spells them
WithdrawnEntries ==
    IF comparison.exists
    THEN SeqToSet(DictGet(comparison.data, K_Withdrawn, <<>>))
    ELSE {}

\* x is the canonical form of some entry of withdrawn_rev4_only
CanonicallyWithdrawn(x) ==
    \E e \in WithdrawnEntries : normalize_control_id(e) = x

\* C16: the withdrawn set is a set of canonical identifiers: once a level is
\* reconciled, each of its identifiers whose canonical form is the canonical
\* form of an entry of withdrawn_rev4_only (AC-02 for the entry AC-2) is in
\* the level's legacy list; without a comparison file the set is empty and
\* no level has a legacy list.
CE_C16_CanonicalWithdrawnSet ==
    /\ pc \in {"sheets", "sheet_loop", "summary", "done"} =>
          \A name \in DOMAIN level_data :
              \A i \in 1..Len(level_data[name]) :
                  LET x == normalize_control_id(level_data[name][i])
                  IN  CanonicallyWithdrawn(x) =>
                          x \in SeqToSet(DictGet(rev4_only_controls, name, <<>>))
    /\ ~comparison.exists =>
          withdrawn_controls = {} /\ rev4_only_controls = EmptyDict

-----------------------------------------------------------------------------
(* Claims on the per-family counters                                       *)

\* the per-family counters of st agree with its totals
FamiliesConsistent(st) ==
    /\ SumFn(st.families, DOMAIN st.families) = st.total_controls
    /\ SumFn(st.family_ccis, DOMAIN st.family_ccis) = st.total_ccis
    /\ DictGet(st.families, Unknown, 0) = Len(st.unknown_controls)
    /\ \A f \in DOMAIN st.families : st.families[f] >= 1
    /\ DOMAIN st.families = DOMAIN st.family_ccis

\* C17: after every identifier of a level's loop, and in every statistics
\* record stored, the family counts add up to total_controls, the family
\* CCI counts add up to total_ccis, the count of family Unknown is the
\* length of unknown_controls, every family present has a count of at least
\* 1 and the two per-family maps have the same keys.
Thm_C17_FamiliesConsistent ==
    /\ pc = "sheet_loop" => FamiliesConsistent(stats)
    /\ \A name \in DOMAIN all_stats : FamiliesConsistent(all_stats[name])

Wit_C17_SameFamilyTwice ==
    /\ pc = "sheet_loop"
    /\ controls = <<S_AC01, S_AC02>>
    /\ ci = 3
    /\ stats.families = (<<"A","C">> :> 2)
    /\ stats.family_ccis = (<<"A","C">> :> 2)
    /\ all_stats = EmptyDict

-----------------------------------------------------------------------------
(* Claims on what the statistics are made of                               *)

\* the current and the legacy list of a level
CurrentOf(name) == DictGet(rev5_level_data, name, <<>>)
LegacyOf(name) == DictGet(rev4_only_controls, name, <<>>)

\* C18: once every sheet is made, every level of the input has a
\* statistics record, made from the level's current list only (the empty
\* record for a level that is empty or wholly withdrawn); no identifier of
\* the level's legacy list is counted or listed in unknown_controls or
\* not_in_reference; only a level with a non-empty legacy list is in the
\* legacy-only map; and the identifiers listed are elements of the current
\* list, which normalizing again leaves as they are.
Thm_C18_StatisticsFromCurrentOnly ==
    /\ \A name \in DOMAIN rev4_only_controls : rev4_only_controls[name] # <<>>
    /\ pc \in {"summary", "done"} =>
          /\ DOMAIN all_stats = DOMAIN level_input
          /\ \A name \in DOMAIN level_input :
                LET st  == all_stats[name]
                    cur == CurrentOf(name)
                    leg == LegacyOf(name)
                IN  /\ st = create_level_sheet(cur, controls_lookup, cci_lookup)
                    /\ st.total_controls = Len(SelectSeq(cur, NonEmpty))
                    /\ SelectSeq(cur, NonEmpty) = <<>> => st = EmptyStats
                    /\ NormalizeAll(cur) = cur
                    /\ SeqToSet(st.unknown_controls) \subseteq SeqToSet(cur)
                    /\ SeqToSet(st.not_in_reference) \subseteq SeqToSet(cur)
                    /\ SeqToSet(leg) \cap SeqToSet(cur) = {}
                    /\ SeqToSet(cur) \cap withdrawn_controls = {}
                    /\ SeqToSet(leg) \subseteq withdrawn_controls
                    /\ SeqToSet(leg) \cap SeqToSet(st.unknown_controls) = {}
                    /\ SeqToSet(leg) \cap SeqToSet(st.not_in_reference) = {}
                    /\ Len(cur) + Len(leg) = Len(level_data[name])

Wit_C18_WhollyWithdrawnLevel ==
    /\ pc = "done"
    /\ level_data["DL-1"] = <<S_SA99, S_XYZQ>>
    /\ level_data["DL-2"] = <<>>
    /\ rev4_only_controls = ("DL-1" :> <<S_SA99, S_XYZQ>>)
    /\ all_stats = ("DL-1" :> EmptyStats) @@ ("DL-2" :> EmptyStats)

====
